---- MODULE Spec2Model ----
(***************************************************************************)
(* Token lifecycle (GenerateToken, ValidateToken, RefreshToken) and the    *)
(* guards (RequireAuth, RequireRole, RequireAnyRole) of package auth, and  *)
(* the account handlers (Register, Login) over the users table, as a state *)
(* machine.                                                                *)
(*                                                                         *)
(* Time is wall-clock time in milliseconds since an epoch that falls on a  *)
(* whole second.  The registered timestamps of a claim set are             *)
(* jwt.NumericDate values: truncated to whole seconds when they are built  *)
(* and written on the wire as whole seconds.                               *)
(***************************************************************************)
EXTENDS Integers, Sequences, FiniteSets, TLC

VARIABLES
    now,     \* the wall clock read by time.Now()
    j,       \* the JWTService: its only field is the signing secret
    cur,     \* the token the client holds (result of the last issuance or refresh)
    old,     \* the token that was exchanged by the last successful refresh
    issue,   \* the last GenerateToken call: principal, entry and return time
    last,    \* the last call of the token service and what it returned
    req,     \* the last guarded request and how it ended
    tasks,   \* the requests served concurrently, each at its step of the handler
    db       \* the users table with its roles, and the serial of its id column

vars == <<now, j, cur, old, issue, last, req, tasks, db>>

-----------------------------------------------------------------------------
(* Bounds of the exploration *)

\* a session is followed for MaxDays days at half-second resolution
MaxDays == 2
\* a chain of refreshes is followed for MaxChainDays days
MaxChainDays == 8
\* at most MaxSub half-second steps are taken on top of the whole-hour jumps
MaxSub == 2
\* MaxTasks requests are served concurrently
MaxTasks == 2

(* Durations *)

Second == 1000
Hour == 3600 * Second
Half == Second \div 2
\* 24 * time.Hour
TokenTTL == 24 * Hour
\* 7*24*time.Hour
RefreshWindow == 7 * 24 * Hour
MaxClock == MaxDays * 24 * Hour
MaxChainClock == MaxChainDays * 24 * Hour
\* the clock moves by a half second or jumps by one of these
Jumps == {23 * Hour, 24 * Hour - Half}

-----------------------------------------------------------------------------
(* Principals: models.User restricted to the fields GenerateToken reads *)

Users ==
    { [ID |-> 1, Email |-> "ann@x.io", Roles |-> << >>],
      [ID |-> 2, Email |-> "bob@x.io", Roles |-> <<"user", "admin">>] }

NoUser == [ID |-> 0, Email |-> "", Roles |-> << >>]

\* NewJWTService(secret)
ServiceSecret == "s3cret"
NewJWTService(secret) == [secret |-> secret]

-----------------------------------------------------------------------------
(* Claims codec *)

\* jwt.NewNumericDate: t.Truncate(time.Second)
NewNumericDate(t) == t - (t % Second)

\* fmt.Sprintf("user_%d", id)
SubjectOf(id) == <<"user_", id>>

NoClaims == [nil |-> TRUE]
NoToken == [form |-> "none"]
\* a string that does not split into three base64url segments
Garbage == [form |-> "garbage"]

\* json.Marshal of Claims: the flat record of the wire format, the numeric
\* dates as whole seconds
EncodeClaims(c) ==
    [user_id |-> c.UserID, email |-> c.Email, roles |-> c.Roles,
     exp |-> c.ExpiresAt \div Second, iat |-> c.IssuedAt \div Second,
     nbf |-> c.NotBefore \div Second, iss |-> c.Issuer, sub |-> c.Subject]

\* json.Unmarshal into &Claims{}: a roles field that is absent leaves the nil
\* slice, which has no elements
DecodeClaims(p) ==
    [UserID |-> p.user_id, Email |-> p.email,
     Roles |-> IF "roles" \in DOMAIN p THEN p.roles ELSE << >>,
     ExpiresAt |-> p.exp * Second, IssuedAt |-> p.iat * Second,
     NotBefore |-> p.nbf * Second, Issuer |-> p.iss, Subject |-> p.sub]

\* the MAC of header and payload under key: HMAC is modelled symbolically, two
\* MACs are equal exactly when algorithm, key and signed text are equal
Sign(alg, key, body) == [alg |-> alg, key |-> key, msg |-> <<alg, body>>]

\* jwt.NewWithClaims(method, claims) followed by token.SignedString(key)
SignedString(alg, c, key) ==
    [form |-> "jwt", alg |-> alg, body |-> EncodeClaims(c),
     sig |-> Sign(alg, key, EncodeClaims(c))]

-----------------------------------------------------------------------------
(* Token service *)

\* the signing methods the jwt package registers
RegisteredMethods ==
    {"HS256", "HS384", "HS512", "RS256", "RS384", "RS512",
     "ES256", "ES384", "ES512", "PS256", "PS384", "PS512", "EdDSA", "none"}
\* the methods of type *jwt.SigningMethodHMAC
HMACMethods == {"HS256", "HS384", "HS512"}

Ok(c) == [ok |-> TRUE, errs |-> {}, claims |-> c]
Fail(es) == [ok |-> FALSE, errs |-> es, claims |-> NoClaims]

\* the key function handed to jwt.ParseWithClaims: accepts a token whose
\* method is an HMAC method and hands out the secret
KeyFuncAccepts(alg) == alg \in HMACMethods

\* a verification that looks at the key of the MAC and not at the signed text
SignatureVerifiesKeyOnly(tok, key) ==
    tok.sig.alg = tok.alg /\ tok.sig.key = key

\* token.Method.Verify(signingString, signature, key)
SignatureVerifies(tok, key) == tok.sig = Sign(tok.alg, key, tok.body)

\* a validator that still accepts a token at the instant it expires
TimeErrorsInclusive(c, t) ==
    (IF t <= c.ExpiresAt THEN {} ELSE {"token is expired"})
    \cup (IF t < c.NotBefore THEN {"token is not valid yet"} ELSE {})

\* a validator that grants a second of leeway on the expiry
TimeErrorsLeeway(c, t) ==
    (IF t < c.ExpiresAt + Second THEN {} ELSE {"token is expired"})
    \cup (IF t < c.NotBefore THEN {"token is not valid yet"} ELSE {})

\* a validator that also rejects a token used before its issued_at
TimeErrorsChecksIat(c, t) ==
    (IF t < c.ExpiresAt THEN {} ELSE {"token is expired"})
    \cup (IF t < c.NotBefore THEN {"token is not valid yet"} ELSE {})
    \cup (IF t < c.IssuedAt THEN {"token used before issued"} ELSE {})

\* a validator that expires a token an hour early
TimeErrorsEarly(c, t) ==
    (IF t + Hour < c.ExpiresAt THEN {} ELSE {"token is expired"})
    \cup (IF t < c.NotBefore THEN {"token is not valid yet"} ELSE {})

\* the claims validator of jwt.ParseWithClaims at time t: exp and nbf are
\* checked, iat is not; every failed check is reported
TimeErrors(c, t) ==
    (IF t < c.ExpiresAt THEN {} ELSE {"token is expired"})
    \cup (IF t < c.NotBefore THEN {"token is not valid yet"} ELSE {})

\* a validation that looks at the time window before the signature
ValidateTokenTimeFirst(svc, tok, t) ==
    IF tok.form # "jwt" THEN Fail({"token is malformed"})
    ELSE IF tok.alg \notin RegisteredMethods
        THEN Fail({"signing method is unavailable"})
    ELSE IF ~ KeyFuncAccepts(tok.alg) THEN Fail({"unexpected signing method"})
    ELSE IF TimeErrors(DecodeClaims(tok.body), t) # {}
        THEN Fail(TimeErrors(DecodeClaims(tok.body), t))
    ELSE IF ~ SignatureVerifies(tok, svc.secret)
        THEN Fail({"signature is invalid"})
    ELSE Ok(DecodeClaims(tok.body))

\* JWTService.ValidateToken(tokenString) with the clock at t
ValidateToken(svc, tok, t) ==
    IF tok.form # "jwt" THEN Fail({"token is malformed"})
    ELSE IF tok.alg \notin RegisteredMethods
        THEN Fail({"signing method is unavailable"})
    ELSE IF ~ KeyFuncAccepts(tok.alg) THEN Fail({"unexpected signing method"})
    ELSE IF ~ SignatureVerifies(tok, svc.secret)
        THEN Fail({"signature is invalid"})
    ELSE IF TimeErrors(DecodeClaims(tok.body), t) # {}
        THEN Fail(TimeErrors(DecodeClaims(tok.body), t))
    ELSE Ok(DecodeClaims(tok.body))

\* an issuance that leaves the roles out of the claims
GenerateClaimsDropsRoles(user, tExp, tIat, tNbf) ==
    [UserID |-> user.ID, Email |-> user.Email, Roles |-> << >>,
     ExpiresAt |-> NewNumericDate(tExp + TokenTTL),
     IssuedAt |-> NewNumericDate(tIat),
     NotBefore |-> NewNumericDate(tNbf),
     Issuer |-> "goapp", Subject |-> SubjectOf(user.ID)]

\* the claims GenerateToken builds; tExp, tIat, tNbf are its three clock reads
GenerateClaims(user, tExp, tIat, tNbf) ==
    [UserID |-> user.ID, Email |-> user.Email, Roles |-> user.Roles,
     ExpiresAt |-> NewNumericDate(tExp + TokenTTL),
     IssuedAt |-> NewNumericDate(tIat),
     NotBefore |-> NewNumericDate(tNbf),
     Issuer |-> "goapp", Subject |-> SubjectOf(user.ID)]

\* a refresh that carries the issued_at of its input over
RefreshClaimsKeepsIat(claims, tExp, tIat, tNbf) ==
    [UserID |-> claims.UserID, Email |-> claims.Email, Roles |-> claims.Roles,
     ExpiresAt |-> NewNumericDate(tExp + TokenTTL),
     IssuedAt |-> claims.IssuedAt,
     NotBefore |-> NewNumericDate(tNbf),
     Issuer |-> "auth-app", Subject |-> claims.Subject]

\* the claims RefreshToken builds from the validated claims of its input
RefreshClaims(claims, tExp, tIat, tNbf) ==
    [UserID |-> claims.UserID, Email |-> claims.Email, Roles |-> claims.Roles,
     ExpiresAt |-> NewNumericDate(tExp + TokenTTL),
     IssuedAt |-> NewNumericDate(tIat),
     NotBefore |-> NewNumericDate(tNbf),
     Issuer |-> "auth-app", Subject |-> claims.Subject]

\* time.Since(claims.IssuedAt.Time) > 7*24*time.Hour, the clock read at t
TooOldToRefresh(claims, t) == t - claims.IssuedAt > RefreshWindow

\* a refresh that reads the claims of its input without validating it
RefreshTokenUnvalidated(svc, tok, rd) ==
    IF tok.form # "jwt"
        THEN [ok |-> FALSE, errs |-> {"cannot refresh invalid token",
                                       "token is malformed"},
              out |-> NoToken, ret |-> rd[1]]
    ELSE IF TooOldToRefresh(DecodeClaims(tok.body), rd[2])
        THEN [ok |-> FALSE, errs |-> {"token too old to refresh"},
              out |-> NoToken, ret |-> rd[2]]
    ELSE [ok |-> TRUE, errs |-> {},
          out |-> SignedString("HS256",
                      RefreshClaims(DecodeClaims(tok.body), rd[3], rd[4], rd[5]),
                      svc.secret),
          ret |-> rd[5]]

\* JWTService.RefreshToken(oldToken).  rd is the sequence of its clock reads:
\* the validation, the age check, and the three reads of the new claims.
\* The result says at which read the call returned.
RefreshToken(svc, tok, rd) ==
    LET v == ValidateToken(svc, tok, rd[1]) IN
    IF ~ v.ok
        THEN [ok |-> FALSE, errs |-> {"cannot refresh invalid token"} \cup v.errs,
              out |-> NoToken, ret |-> rd[1]]
    ELSE IF TooOldToRefresh(v.claims, rd[2])
        THEN [ok |-> FALSE, errs |-> {"token too old to refresh"},
              out |-> NoToken, ret |-> rd[2]]
    ELSE [ok |-> TRUE, errs |-> {},
          out |-> SignedString("HS256",
                      RefreshClaims(v.claims, rd[3], rd[4], rd[5]), svc.secret),
          ret |-> rd[5]]

-----------------------------------------------------------------------------
(* Authentication guard *)

\* the pieces of an Authorization header value: a word, a single space, or a
\* token string
Word(w) == [form |-> "word", text |-> w]
Space == [form |-> "sp"]
\* a horizontal tab
Tab == [form |-> "tab"]

\* strings.Fields: the maximal runs of characters that are not white space
RECURSIVE Fields(_)
Fields(h) ==
    IF h = << >> THEN << >>
    ELSE IF Head(h) \in {Space, Tab} THEN Fields(Tail(h))
    ELSE IF Len(h) > 1 /\ h[2] \notin {Space, Tab}
        THEN LET rest == Fields(Tail(h)) IN
             << <<Head(h)>> \o rest[1] >> \o Tail(rest)
    ELSE << <<Head(h)>> >> \o Fields(Tail(h))

\* strings.Split(authHeader, " ")
RECURSIVE Split(_)
Split(h) ==
    IF h = << >> THEN << << >> >>
    ELSE LET rest == Split(Tail(h)) IN
         IF Head(h) = Space THEN << << >> >> \o rest
         ELSE << <<Head(h)>> \o rest[1] >> \o Tail(rest)

\* the token string a part of the header is: a token alone, or text that does
\* not parse as one
TokenString(part) ==
    IF Len(part) = 1 /\ part[1].form = "jwt" THEN part[1] ELSE Garbage

NoContext == [nil |-> TRUE]

\* http.Error(w, msg, code) and return
Reject(code, msg) ==
    [status |-> code, body |-> msg, invoked |-> FALSE, ctx |-> NoContext]

\* next(w, r.WithContext(ctx)): the wrapped handler answers 200
Invoke(ctx) ==
    [status |-> 200, body |-> "handler", invoked |-> TRUE, ctx |-> ctx]

\* a context in which the roles are stored only when there are some
WithClaimsSomeRoles(claims) ==
    IF claims.Roles = << >>
    THEN [user_id |-> claims.UserID, user_email |-> claims.Email]
    ELSE [user_id |-> claims.UserID, user_email |-> claims.Email,
          user_roles |-> claims.Roles]

\* the context RequireAuth builds from the validated claims
WithClaims(claims) ==
    [user_id |-> claims.UserID, user_email |-> claims.Email,
     user_roles |-> claims.Roles]

\* a guard that answers a failed validation with 403
RequireAuthForbidsInvalid(svc, h, t) ==
    IF h = << >> THEN Reject(401, "Authorization header required")
    ELSE IF Len(Split(h)) # 2 \/ Split(h)[1] # <<Word("Bearer")>>
        THEN Reject(401, "Invalid authorization header format")
    ELSE IF ~ ValidateToken(svc, TokenString(Split(h)[2]), t).ok
        THEN Reject(403, "Invalid or expired token")
    ELSE Invoke(WithClaims(ValidateToken(svc, TokenString(Split(h)[2]), t).claims))

\* a guard that turns a principal without roles away
RequireAuthWantsRoles(svc, h, t) ==
    IF h = << >> THEN Reject(401, "Authorization header required")
    ELSE IF Len(Split(h)) # 2 \/ Split(h)[1] # <<Word("Bearer")>>
        THEN Reject(401, "Invalid authorization header format")
    ELSE IF ~ ValidateToken(svc, TokenString(Split(h)[2]), t).ok
        THEN Reject(401, "Invalid or expired token")
    ELSE IF ValidateToken(svc, TokenString(Split(h)[2]), t).claims.Roles = << >>
        THEN Reject(403, "Insufficient permissions")
    ELSE Invoke(WithClaims(ValidateToken(svc, TokenString(Split(h)[2]), t).claims))

\* a guard that tells the caller when the token has expired
RequireAuthLeaksError(svc, h, t) ==
    IF h = << >> THEN Reject(401, "Authorization header required")
    ELSE IF Len(Split(h)) # 2 \/ Split(h)[1] # <<Word("Bearer")>>
        THEN Reject(401, "Invalid authorization header format")
    ELSE IF ~ ValidateToken(svc, TokenString(Split(h)[2]), t).ok
        THEN IF "token is expired"
                    \in ValidateToken(svc, TokenString(Split(h)[2]), t).errs
             THEN Reject(401, "Token expired")
             ELSE Reject(401, "Invalid token")
    ELSE Invoke(WithClaims(ValidateToken(svc, TokenString(Split(h)[2]), t).claims))

\* a guard that lets a request without a header through as anonymous
RequireAuthSkipsMissing(svc, h, t) ==
    IF h = << >> THEN Invoke(NoContext)
    ELSE IF Len(Split(h)) # 2 \/ Split(h)[1] # <<Word("Bearer")>>
        THEN Reject(401, "Invalid authorization header format")
    ELSE IF ~ ValidateToken(svc, TokenString(Split(h)[2]), t).ok
        THEN Reject(401, "Invalid or expired token")
    ELSE Invoke(WithClaims(ValidateToken(svc, TokenString(Split(h)[2]), t).claims))

\* Middleware.RequireAuth(next) serving a request with Authorization header h
\* at time t
RequireAuth(svc, h, t) ==
    IF h = << >> THEN Reject(401, "Authorization header required")
    ELSE IF Len(Split(h)) # 2 \/ Split(h)[1] # <<Word("Bearer")>>
        THEN Reject(401, "Invalid authorization header format")
    ELSE IF ~ ValidateToken(svc, TokenString(Split(h)[2]), t).ok
        THEN Reject(401, "Invalid or expired token")
    ELSE Invoke(WithClaims(ValidateToken(svc, TokenString(Split(h)[2]), t).claims))

\* a request: sent says whether it has an Authorization header at all
Request(h) == [sent |-> TRUE, value |-> h]
NoHeaderRequest == [sent |-> FALSE, value |-> << >>]

\* r.Header.Get("Authorization"): the empty string when the header is absent
HeaderGet(rq) == IF rq.sent THEN rq.value ELSE << >>

\* r.Context().Value(UserRolesKey) asserted to []string
RolesInContext(ctx) == "user_roles" \in DOMAIN ctx

\* a scan that looks at the first role of the principal only
HasRoleFirstOnly(roles, role) == Len(roles) > 0 /\ roles[1] = role

\* the scan of RequireRole over the roles of the context
HasRole(roles, role) == \E i \in 1 .. Len(roles) : roles[i] = role

\* a scan that wants every allowed role to be held
HasAnyRoleWantsAll(roles, allowedRoles) ==
    \A k \in 1 .. Len(allowedRoles) :
        \E i \in 1 .. Len(roles) : roles[i] = allowedRoles[k]

\* the nested scan of RequireAnyRole
HasAnyRole(roles, allowedRoles) ==
    \E i \in 1 .. Len(roles) :
        \E k \in 1 .. Len(allowedRoles) : roles[i] = allowedRoles[k]

\* the handler RequireRole(role) wraps next in, serving a request whose
\* context is ctx
RoleHandler(role, ctx) ==
    IF ~ RolesInContext(ctx) THEN Reject(500, "Unable to verify user roles")
    ELSE IF ~ HasRole(ctx.user_roles, role)
        THEN Reject(403, "Insufficient permissions")
    ELSE Invoke(ctx)

\* the handler RequireAnyRole(allowedRoles...) wraps next in
AnyRoleHandler(allowedRoles, ctx) ==
    IF ~ RolesInContext(ctx) THEN Reject(500, "Unable to verify user roles")
    ELSE IF ~ HasAnyRole(ctx.user_roles, allowedRoles)
        THEN Reject(403, "Insufficient permissions")
    ELSE Invoke(ctx)

\* Middleware.RequireRole(role)(next): RequireAuth around the role handler
RequireRole(svc, role, h, t) ==
    IF RequireAuth(svc, h, t).invoked
    THEN RoleHandler(role, RequireAuth(svc, h, t).ctx)
    ELSE RequireAuth(svc, h, t)

\* Middleware.RequireAnyRole(allowedRoles...)(next): RequireAuth around the
\* any-role handler
RequireAnyRole(svc, allowedRoles, h, t) ==
    IF RequireAuth(svc, h, t).invoked
    THEN AnyRoleHandler(allowedRoles, RequireAuth(svc, h, t).ctx)
    ELSE RequireAuth(svc, h, t)

\* an accessor that takes a principal without roles for no principal
GetUserRolesFromContextNonEmpty(ctx) ==
    IF "user_roles" \in DOMAIN ctx /\ ctx.user_roles # << >>
    THEN [value |-> ctx.user_roles, found |-> TRUE]
    ELSE [value |-> << >>, found |-> FALSE]

\* GetUserIDFromContext, GetUserEmailFromContext, GetUserRolesFromContext
GetUserIDFromContext(ctx) ==
    IF "user_id" \in DOMAIN ctx THEN [value |-> ctx.user_id, found |-> TRUE]
    ELSE [value |-> 0, found |-> FALSE]
GetUserEmailFromContext(ctx) ==
    IF "user_email" \in DOMAIN ctx
    THEN [value |-> ctx.user_email, found |-> TRUE]
    ELSE [value |-> "", found |-> FALSE]
GetUserRolesFromContext(ctx) ==
    IF "user_roles" \in DOMAIN ctx
    THEN [value |-> ctx.user_roles, found |-> TRUE]
    ELSE [value |-> << >>, found |-> FALSE]

\* http.Header: header names to the lists of their values
NoHeaders == [n \in {} |-> << >>]

\* Header.Add(name, value): the value is appended to those of the name
HeaderAdd(hdrs, name, value) ==
    [n \in DOMAIN hdrs \cup {name} |->
        IF n # name THEN hdrs[n]
        ELSE IF name \in DOMAIN hdrs THEN Append(hdrs[name], value)
        ELSE <<value>>]

\* Header.Set(name, value): the value replaces those of the name
HeaderSet(hdrs, name, value) ==
    [n \in DOMAIN hdrs \cup {name} |-> IF n = name THEN <<value>> ELSE hdrs[n]]

\* Header.Get(name): the first value of the name, or the empty string
HeaderFirst(hdrs, name) ==
    IF name \in DOMAIN hdrs /\ hdrs[name] # << >> THEN hdrs[name][1] ELSE ""

\* strconv.Itoa for numbers that are not negative
Digit(d) == <<"0", "1", "2", "3", "4", "5", "6", "7", "8", "9">>[d + 1]
RECURSIVE Itoa(_)
Itoa(n) == IF n < 10 THEN Digit(n) ELSE Itoa(n \div 10) \o Digit(n % 10)

\* strings.Join(elems, ",")
RECURSIVE Join(_)
Join(elems) ==
    IF elems = << >> THEN ""
    ELSE IF Len(elems) = 1 THEN elems[1]
    ELSE elems[1] \o "," \o Join(Tail(elems))

\* the answer of the legacy guard: hdrs are the request headers its handler sees
RejectLegacy(code, msg) ==
    [status |-> code, body |-> msg, invoked |-> FALSE, ctx |-> NoContext,
     headers |-> NoHeaders]
InvokeLegacy(hdrs) ==
    [status |-> 200, body |-> "handler", invoked |-> TRUE, ctx |-> NoContext,
     headers |-> hdrs]

\* the three r.Header.Set calls of the legacy guard
WithUserHeaders(hdrs, claims) ==
    HeaderSet(HeaderSet(HeaderSet(hdrs,
        "X-User-ID", Itoa(claims.UserID)),
        "X-User-Email", claims.Email),
        "X-User-Roles", Join(claims.Roles))

\* Middleware.RequireAuthLegacy(next) serving a request with Authorization
\* header h and further headers hdrs at time t
RequireAuthLegacy(svc, h, hdrs, t) ==
    IF h = << >> THEN RejectLegacy(401, "Authorization header required")
    ELSE IF Len(Split(h)) # 2 \/ Split(h)[1] # <<Word("Bearer")>>
        THEN RejectLegacy(401, "Invalid authorization header format")
    ELSE IF ~ ValidateToken(svc, TokenString(Split(h)[2]), t).ok
        THEN RejectLegacy(401, "Invalid token")
    ELSE InvokeLegacy(WithUserHeaders(hdrs,
             ValidateToken(svc, TokenString(Split(h)[2]), t).claims))

-----------------------------------------------------------------------------
(* Accounts: strings, validator, crypto and the users table *)

\* Strings that the account handlers transform or match are sequences of
\* one-character strings.
UpperLetters == {"A", "B", "D", "P"}
LowerLetters == {"a", "b", "c", "d", "e", "i", "o", "p", "r", "s", "v", "w", "x", "z"}
Digits == {"0", "1", "2", "3"}
Letters == UpperLetters \cup LowerLetters

\* unicode.ToLower on the letters in use; every other character maps to itself
LowerOf(c) ==
    CASE c = "A" -> "a"
      [] c = "B" -> "b"
      [] c = "D" -> "d"
      [] c = "P" -> "p"
      [] OTHER -> c

\* strings.ToLower(s)
ToLower(s) == [k \in 1 .. Len(s) |-> LowerOf(s[k])]

\* white space as strings.TrimSpace sees it
Blanks == {" ", "\t", "\n", "\r"}

\* strings.TrimSpace(s): leading and trailing white space removed
RECURSIVE TrimSpace(_)
TrimSpace(s) ==
    IF s = << >> THEN s
    ELSE IF Head(s) \in Blanks THEN TrimSpace(Tail(s))
    ELSE IF s[Len(s)] \in Blanks THEN TrimSpace(SubSeq(s, 1, Len(s) - 1))
    ELSE s

\* the form of an email address that Register stores (admin.go line 360)
StoredForm(email) == ToLower(TrimSpace(email))

\* ValidateEmail: ^[a-zA-Z0-9._%+-]+@[a-zA-Z0-9.-]+\.[a-zA-Z]{2,}$
LocalChars == Letters \cup Digits \cup {".", "_", "%", "+", "-"}
DomainChars == Letters \cup Digits \cup {".", "-"}
ValidateEmail(email) ==
    /\ email # << >>
    /\ \E a \in 1 .. Len(email), d \in 1 .. Len(email) :
        /\ email[a] = "@"
        /\ email[d] = "."
        /\ 1 < a
        /\ a + 1 < d
        /\ d + 2 <= Len(email)
        /\ \A k \in 1 .. (a - 1) : email[k] \in LocalChars
        /\ \A k \in (a + 1) .. (d - 1) : email[k] \in DomainChars
        /\ \A k \in (d + 1) .. Len(email) : email[k] \in Letters

\* ValidatePassword: eight characters or more, with an upper-case letter, a
\* lower-case letter and a digit
ValidatePassword(password) ==
    /\ password # << >>
    /\ Len(password) >= 8
    /\ \E k \in 1 .. Len(password) : password[k] \in UpperLetters
    /\ \E k \in 1 .. Len(password) : password[k] \in LowerLetters
    /\ \E k \in 1 .. Len(password) : password[k] \in Digits

\* ValidateName: not empty, two characters or more once trimmed, at most 100
ValidateName(name) ==
    /\ name # << >>
    /\ Len(TrimSpace(name)) >= 2
    /\ Len(name) <= 100

\* ValidateUserRegistration(name, email, password) reports no error
ValidateUserRegistration(name, email, password) ==
    /\ ValidateName(name)
    /\ ValidateEmail(email)
    /\ ValidatePassword(password)

\* bcrypt.GenerateFromPassword: a hash is a tagged copy of what it hashes, and
\* only the password it was made from compares equal to it
Bcrypt(password) == <<"$2a$10$", password>>
CompareHashAndPassword(hash, password) == hash = Bcrypt(password)

\* HashPassword(password): [hash, ok]
HashPassword(password) ==
    IF password = << >> THEN [hash |-> << >>, ok |-> FALSE]
    ELSE [hash |-> Bcrypt(password), ok |-> TRUE]

\* CheckPasswordHash(password, hash)
CheckPasswordHash(password, hash) ==
    IF password = << >> \/ hash = << >> THEN FALSE
    ELSE CompareHashAndPassword(hash, password)

\* the addresses, passwords and names in use
AliceEmail == <<"a", "@", "x", ".", "i", "o">>
BobEmail == <<"b", "@", "x", ".", "i", "o">>
BobEmailMixed == <<"B", "@", "x", ".", "i", "o">>
CharlieEmail == <<"c", "@", "x", ".", "i", "o">>
DaveEmail == <<"d", "@", "x", ".", "i", "o">>
DaveEmailMixed == <<"D", "@", "x", ".", "i", "o">>
UnknownEmail == <<"z", "@", "x", ".", "i", "o">>
\* the password the hash of the sample users verifies
SamplePassword == <<"P", "a", "s", "s", "w", "o", "r", "d", "1", "2", "3">>
StrongPassword == <<"P", "a", "s", "s", "w", "0", "r", "d">>
WeakPassword == <<"p", "w">>
SampleName == <<"D", "a", "v", "e">>

\* the result of a query that found no row
NoRow == [id |-> 0, email |-> << >>, hash |-> << >>, active |-> FALSE,
          roles |-> {}, last_login |-> -1]

\* The users table after the migration (001_initial_schema.sql): the three
\* sample users, active by the default of the column, with the hash of the
\* sample password.  A row carries the names of the roles joined to it
\* through user_roles; last_login is -1 while it is NULL.
SeedData ==
    [users |->
        { [id |-> 1, email |-> AliceEmail, hash |-> Bcrypt(SamplePassword),
           active |-> TRUE, roles |-> {"admin", "user"}, last_login |-> -1],
          [id |-> 2, email |-> BobEmail, hash |-> Bcrypt(SamplePassword),
           active |-> TRUE, roles |-> {"user"}, last_login |-> -1],
          [id |-> 3, email |-> CharlieEmail, hash |-> Bcrypt(SamplePassword),
           active |-> TRUE, roles |-> {"moderator", "user"}, last_login |-> -1] },
     serial |-> 4]

\* the orders in which a query without ORDER BY may return a set of names
Orderings(S) ==
    { seq \in [1 .. Cardinality(S) -> S] : \A x \in S : \E k \in DOMAIN seq : seq[k] = x }

\* EmailExists(email): SELECT COUNT(*) FROM users WHERE email = $1
EmailExists(d, email) == \E row \in d.users : row.email = email

\* GetByEmail(email): the active row with this email, or NoRow (sql.ErrNoRows)
GetByEmail(d, email) ==
    IF \E row \in d.users : row.email = email /\ row.active
    THEN CHOOSE row \in d.users : row.email = email /\ row.active
    ELSE NoRow

\* getUserRoles(userID): the names joined to the user, as a set
UserRoles(d, id) == UNION { row.roles : row \in { r \in d.users : r.id = id } }

\* UpdateLastLogin(userID) at instant t
UpdateLastLogin(d, id, t) ==
    [d EXCEPT !.users =
        { IF row.id = id THEN [row EXCEPT !.last_login = t] ELSE row : row \in d.users }]

\* Create(user), statement by statement.  The INSERT into users draws an id
\* from the serial whether it succeeds or not, then fails on the UNIQUE
\* constraint of users.email against a committed row; it waits while another
\* transaction holds an uncommitted row with the same email.
CreateFails(d, email) == \E row \in d.users : row.email = email
InsertUser(d) == [d EXCEPT !.serial = @ + 1]

\* the Commit of Create: the row becomes visible, active and with the default
\* role "user" joined to it
CommitUser(d, id, email, hash) ==
    [d EXCEPT !.users = @ \cup
        { [id |-> id, email |-> email, hash |-> hash, active |-> TRUE,
           roles |-> {"user"}, last_login |-> -1] }]

-----------------------------------------------------------------------------
(* The clock *)

\* the clock is followed on a grid: a whole hour plus at most MaxSub half seconds
SubSteps(t) == (t % Hour) \div Half

\* the instants a call that starts at t may read the clock at
\* (a call runs for at most half a second)
Window(t) == { u \in {t, t + Half} : SubSteps(u) <= MaxSub }

\* the sequences of n successive clock reads of a call whose first read is t
ClockReads(t, n) ==
    { rd \in [1 .. n -> Window(t)] :
        /\ rd[1] = t
        /\ \A i \in 1 .. (n - 1) : rd[i] <= rd[i + 1] }

Idle == [op |-> "idle", in |-> NoToken, at |-> 0, ret |-> 0, ok |-> FALSE,
         errs |-> {}, claims |-> NoClaims, out |-> NoToken]
NoIssue == [user |-> NoUser, at |-> 0, ret |-> 0, out |-> NoToken]
NoRequest == [guard |-> "none"]

\* the goroutines serving requests, one per request
Tasks == 1 .. MaxTasks

\* a goroutine that has not taken a request yet
IdleTask ==
    [pc |-> "idle", guard |-> "none", need |-> << >>, rq |-> NoHeaderRequest,
     tokenString |-> NoToken, claims |-> NoClaims, ctx |-> NoContext,
     at |-> 0, status |-> 0, body |-> "", invoked |-> FALSE,
     seen |-> NoContext, trace |-> << >>]

Init ==
    /\ now = 0
    /\ j = NewJWTService(ServiceSecret)
    /\ cur = NoToken
    /\ old = NoToken
    /\ issue = NoIssue
    /\ last = Idle
    /\ req = NoRequest
    /\ tasks = [i \in Tasks |-> IdleTask]
    /\ db = SeedData

\* exp of a token, in milliseconds
ExpiresAt(tok) == DecodeClaims(tok.body).ExpiresAt

\* time passes by d, up to the instant limit; the result of the last call is
\* consumed.  The clock starts within a second before the login, the session
\* is followed until the client's token has expired, and the client drops
\* the exchanged token once that one has expired.
Advance(d, limit) ==
    /\ now + d <= limit
    /\ SubSteps(now + d) <= MaxSub
    /\ cur = NoToken => d = Half
    /\ cur # NoToken => now < ExpiresAt(cur)
    /\ now' = now + d
    /\ old' = IF old # NoToken /\ now + d < ExpiresAt(old) THEN old ELSE NoToken
    /\ last' = Idle
    /\ req' = NoRequest
    /\ UNCHANGED <<j, cur, issue, tasks, db>>

\* a login or registration calls GenerateToken(user): one session is followed
DoGenerate(user, rd) ==
    LET tok == SignedString("HS256",
                   GenerateClaims(user, rd[1], rd[2], rd[3]), j.secret) IN
    /\ cur = NoToken
    /\ cur' = tok
    /\ old' = NoToken
    /\ issue' = [user |-> user, at |-> now, ret |-> rd[3], out |-> tok]
    /\ last' = [Idle EXCEPT !.op = "Generate", !.at = now, !.ret = rd[3],
                            !.ok = TRUE, !.out = tok]
    /\ now' = rd[3]
    /\ req' = NoRequest
    /\ UNCHANGED <<j, tasks, db>>

\* the tokens the client can present
Held == {cur, old} \ {NoToken}

\* a call of ValidateToken(tok)
DoValidate(tok) ==
    LET v == ValidateToken(j, tok, now) IN
    /\ last' = [Idle EXCEPT !.op = "Validate", !.in = tok, !.at = now,
                            !.ret = now, !.ok = v.ok, !.errs = v.errs,
                            !.claims = v.claims]
    /\ req' = NoRequest
    /\ UNCHANGED <<now, j, cur, old, issue, tasks, db>>

\* a call of RefreshToken(tok); keep says whether the client replaces its
\* token by the one returned
DoRefresh(tok, rd, keep) ==
    LET r == RefreshToken(j, tok, rd) IN
    /\ last' = [Idle EXCEPT !.op = "Refresh", !.in = tok, !.at = now,
                            !.ret = r.ret, !.ok = r.ok, !.errs = r.errs,
                            !.out = r.out]
    /\ cur' = IF r.ok /\ keep THEN r.out ELSE cur
    /\ old' = IF r.ok /\ keep THEN tok ELSE old
    /\ now' = r.ret
    /\ req' = NoRequest
    /\ UNCHANGED <<j, issue, tasks, db>>

Next ==
    \/ \E d \in Jumps \cup {Half} : Advance(d, MaxClock)
    \/ \E u \in Users : \E rd \in ClockReads(now, 3) : DoGenerate(u, rd)
    \/ \E tok \in Held : DoValidate(tok)
    \/ \E tok \in Held : \E rd \in ClockReads(now, 5) : DoRefresh(tok, rd, TRUE)

\* one session at half-second resolution
Spec == Init /\ [][Next]_vars

\* a long chain of refreshes: the clock moves only while a call runs or by
\* whole jumps
NextChain ==
    \/ \E d \in Jumps \cup {24 * Hour} : Advance(d, MaxChainClock)
    \/ \E u \in Users : \E rd \in ClockReads(now, 3) : DoGenerate(u, rd)
    \/ \E tok \in Held : DoValidate(tok)
    \/ \E tok \in Held : \E rd \in ClockReads(now, 5) : DoRefresh(tok, rd, TRUE)

SpecChain == Init /\ [][NextChain]_vars

-----------------------------------------------------------------------------
(* Arbitrary tokens and requests presented to the service *)

\* registered timestamps of presented tokens
PresentedExp == {1 * Second, RefreshWindow + 2 * 24 * Hour}
PresentedNbf == {0, 1 * Second}
PresentedIat == {0, 1 * Second, 2 * 24 * Hour}

PresentedClaims ==
    { [UserID |-> u.ID, Email |-> u.Email, Roles |-> u.Roles,
       ExpiresAt |-> e, IssuedAt |-> i, NotBefore |-> n,
       Issuer |-> "goapp", Subject |-> SubjectOf(u.ID)] :
        u \in Users, e \in PresentedExp, i \in PresentedIat, n \in PresentedNbf }

PresentedAlgs == {"HS256", "HS384", "RS256", "none", "XS1"}

\* a signature that is no MAC at all
BadSignature == [alg |-> "", key |-> "", msg |-> << >>]

\* the signature segments presented with header alg and payload body: the
\* MAC under the service's secret, the MAC under another secret, the MAC of
\* another payload (the payload was altered after signing), the HS256 MAC
\* (the header was altered after signing), and noise
PresentedSignatures(alg, body) ==
    { Sign(alg, ServiceSecret, body),
      Sign(alg, "0ther", body),
      Sign(alg, ServiceSecret, [body EXCEPT !.user_id = 0]),
      Sign("HS256", ServiceSecret, body),
      BadSignature }

PresentedWith(alg, body) ==
    { [form |-> "jwt", alg |-> alg, body |-> body, sig |-> sg] :
        sg \in PresentedSignatures(alg, body) }

\* a payload without the roles field
WithoutRoles(body) == [f \in DOMAIN body \ {"roles"} |-> body[f]]

\* tokens signed with the service's secret whose payload has no roles field
PresentedRoleless ==
    { [form |-> "jwt", alg |-> "HS256", body |-> WithoutRoles(EncodeClaims(c)),
       sig |-> Sign("HS256", ServiceSecret, WithoutRoles(EncodeClaims(c)))] :
        c \in { d \in PresentedClaims : d.UserID = 2 } }

PresentedTokens ==
    UNION { PresentedWith(a, EncodeClaims(c)) :
                a \in PresentedAlgs, c \in PresentedClaims }
    \cup PresentedRoleless
    \cup {Garbage}

\* the Authorization header values presented
PresentedHeaders ==
    { <<Word("Bearer"), Space, tok>> : tok \in PresentedTokens }
    \cup { << >>, <<Word("Bearer")>>, <<Word("Bearer"), Space>> }
    \cup UNION { { <<Word("bearer"), Space, tok>>, <<tok>>,
                   <<Word("Basic"), Space, tok>>,
                   <<Word("Bearer"), Space, Space, tok>>,
                   <<Word("Bearer"), Tab, tok>>,
                   <<Word("Bearer"), Space, tok, Space, Word("x")>> } :
                 tok \in { SignedString("HS256", c, ServiceSecret) :
                             c \in PresentedClaims } }

\* the clock of the presentations: half seconds around the epoch and around
\* the end of the refresh window
MaxPresentClock == RefreshWindow + MaxSub * Half

Elapse(d) ==
    /\ now + d <= MaxPresentClock
    /\ SubSteps(now + d) <= MaxSub
    /\ now' = now + d
    /\ last' = Idle
    /\ req' = NoRequest
    /\ UNCHANGED <<j, cur, old, issue, tasks, db>>

\* the requests presented: every header value, and no header at all
PresentedRequests ==
    { Request(h) : h \in PresentedHeaders } \cup {NoHeaderRequest}

\* the roles and the lists of roles the routes are guarded with
PresentedRoles == {"user", "admin", "guest"}
PresentedAllowed ==
    { << >>, <<"admin">>, <<"guest">>, <<"guest", "admin">>,
      <<"guest", "editor">> }

\* what is recorded of a request served at the current time with result r
Served(guard, need, rq, r) ==
    [guard |-> guard, need |-> need, sent |-> rq.sent,
     header |-> HeaderGet(rq), at |-> now,
     status |-> r.status, body |-> r.body, invoked |-> r.invoked,
     ctx |-> r.ctx]

\* a request rq to a handler wrapped by RequireAuth
DoRequireAuth(rq) ==
    /\ req' = Served("RequireAuth", << >>, rq,
                     RequireAuth(j, HeaderGet(rq), now))
    /\ last' = Idle
    /\ UNCHANGED <<now, j, cur, old, issue, tasks, db>>

\* a request rq to a handler wrapped by RequireRole(role)
DoRequireRole(role, rq) ==
    /\ req' = Served("RequireRole", <<role>>, rq,
                     RequireRole(j, role, HeaderGet(rq), now))
    /\ last' = Idle
    /\ UNCHANGED <<now, j, cur, old, issue, tasks, db>>

\* a request rq to a handler wrapped by RequireAnyRole(allowedRoles...)
DoRequireAnyRole(allowedRoles, rq) ==
    /\ req' = Served("RequireAnyRole", allowedRoles, rq,
                     RequireAnyRole(j, allowedRoles, HeaderGet(rq), now))
    /\ last' = Idle
    /\ UNCHANGED <<now, j, cur, old, issue, tasks, db>>

\* the X-User headers a client supplies itself
PresentedUserHeaders ==
    { NoHeaders,
      [n \in {"X-User-ID", "X-User-Email", "X-User-Roles"} |->
          IF n = "X-User-ID" THEN <<"1">>
          ELSE IF n = "X-User-Email" THEN <<"root@x.io">>
          ELSE <<"admin", "owner">>] }

\* a request rq with the further headers hdrs to a handler wrapped by
\* RequireAuthLegacy
DoRequireAuthLegacy(rq, hdrs) ==
    LET r == RequireAuthLegacy(j, HeaderGet(rq), hdrs, now) IN
    /\ req' = Served("RequireAuthLegacy", << >>, rq, r)
                  @@ [supplied |-> hdrs, headers |-> r.headers]
    /\ last' = Idle
    /\ UNCHANGED <<now, j, cur, old, issue, tasks, db>>

\* no call is in progress and the last result has been consumed
Quiet == last = Idle /\ req = NoRequest

\* the result of a call is consumed
Consume ==
    /\ ~ Quiet
    /\ last' = Idle
    /\ req' = NoRequest
    /\ UNCHANGED <<now, j, cur, old, issue, tasks, db>>

\* one presentation at a time
NextInputs ==
    \/ \E d \in {Half, RefreshWindow} : Elapse(d)
    \/ Consume
    \/ Quiet /\ \E tok \in PresentedTokens : DoValidate(tok)
    \/ Quiet /\ \E tok \in PresentedTokens :
            \E rd \in ClockReads(now, 5) : DoRefresh(tok, rd, FALSE)
    \/ Quiet /\ \E rq \in PresentedRequests : DoRequireAuth(rq)
    \/ Quiet /\ \E rq \in PresentedRequests :
            \E role \in PresentedRoles : DoRequireRole(role, rq)
    \/ Quiet /\ \E rq \in PresentedRequests :
            \E allowed \in PresentedAllowed : DoRequireAnyRole(allowed, rq)
    \/ Quiet /\ \E rq \in PresentedRequests :
            \E hdrs \in PresentedUserHeaders : DoRequireAuthLegacy(rq, hdrs)

SpecInputs == Init /\ [][NextInputs]_vars

-----------------------------------------------------------------------------
(* Requests served concurrently, one goroutine each, step by step *)

\* the tokens carried by the requests served concurrently: one of each
\* principal, the second of which expires while the requests are served
ServedTokens ==
    { SignedString("HS256",
          [UserID |-> 1, Email |-> "ann@x.io", Roles |-> << >>,
           ExpiresAt |-> TokenTTL, IssuedAt |-> 0, NotBefore |-> 0,
           Issuer |-> "goapp", Subject |-> SubjectOf(1)], ServiceSecret),
      SignedString("HS256",
          [UserID |-> 2, Email |-> "bob@x.io", Roles |-> <<"user", "admin">>,
           ExpiresAt |-> 1 * Second, IssuedAt |-> 0, NotBefore |-> 0,
           Issuer |-> "goapp", Subject |-> SubjectOf(2)], ServiceSecret) }

ServedRequests ==
    { Request(<<Word("Bearer"), Space, tok>>) : tok \in ServedTokens }
    \cup { NoHeaderRequest, Request(<<Word("Basic"), Space, Word("x")>>) }

\* the guards of the routes: kind and argument
ServedGuards ==
    { [kind |-> "RequireAuth", need |-> << >>],
      [kind |-> "RequireRole", need |-> <<"admin">>],
      [kind |-> "RequireAnyRole", need |-> <<"guest", "user">>] }

\* the clock while the requests are served
ServeHorizon == 1 * Second

Tick ==
    /\ now < ServeHorizon
    /\ now' = now + Second
    /\ UNCHANGED <<j, cur, old, issue, last, req, tasks, db>>

\* task i leaves the guard with http.Error(w, msg, code)
Rejected(i, code, msg, mark) ==
    [tasks[i] EXCEPT !.pc = "done", !.status = code, !.body = msg,
                     !.trace = Append(@, mark)]

\* a request rq arrives at a route guarded by g and is given to task i
Arrive(i, g, rq) ==
    /\ tasks[i].pc = "idle"
    /\ tasks' = [tasks EXCEPT ![i] =
                    [@ EXCEPT !.pc = "start", !.guard = g.kind,
                              !.need = g.need, !.rq = rq]]
    /\ UNCHANGED <<now, j, cur, old, issue, last, req, db>>

\* RequireAuth, header read and split
ParseHeader(i) ==
    LET h == HeaderGet(tasks[i].rq) IN
    /\ tasks[i].pc = "start"
    /\ tasks' = [tasks EXCEPT ![i] =
          IF h = << >>
              THEN Rejected(i, 401, "Authorization header required",
                            "REJECTED-401")
          ELSE IF Len(Split(h)) # 2 \/ Split(h)[1] # <<Word("Bearer")>>
              THEN Rejected(i, 401, "Invalid authorization header format",
                            "REJECTED-401")
          ELSE [@ EXCEPT !.pc = "header-parsed",
                         !.tokenString = TokenString(Split(h)[2]),
                         !.trace = Append(@, "header-parsed")]]
    /\ UNCHANGED <<now, j, cur, old, issue, last, req, db>>

\* a guard that calls next as soon as the header is parsed
ValidateSkipped(i) ==
    /\ tasks[i].pc = "header-parsed"
    /\ tasks' = [tasks EXCEPT ![i] =
          [@ EXCEPT !.pc = "done", !.status = 200, !.body = "handler",
                    !.at = now, !.invoked = TRUE,
                    !.trace = Append(@, "OPERATION-INVOKED")]]
    /\ UNCHANGED <<now, j, cur, old, issue, last, req, db>>

\* RequireAuth, the call of m.jwtService.ValidateToken(tokenString)
Validate(i) ==
    LET v == ValidateToken(j, tasks[i].tokenString, now) IN
    /\ tasks[i].pc = "header-parsed"
    /\ tasks' = [tasks EXCEPT ![i] =
          IF ~ v.ok
              THEN [Rejected(i, 401, "Invalid or expired token", "REJECTED-401")
                        EXCEPT !.at = now]
          ELSE [@ EXCEPT !.pc = "token-validated", !.claims = v.claims,
                         !.at = now,
                         !.trace = Append(@, "token-validated")]]
    /\ UNCHANGED <<now, j, cur, old, issue, last, req, db>>

\* RequireAuth, the three context.WithValue calls
Populate(i) ==
    /\ tasks[i].pc = "token-validated"
    /\ tasks' = [tasks EXCEPT ![i] =
          [@ EXCEPT !.pc = "context-populated",
                    !.ctx = WithClaims(tasks[i].claims),
                    !.trace = Append(@, "context-populated")]]
    /\ UNCHANGED <<now, j, cur, old, issue, last, req, db>>

\* a context kept in one place for all requests: the one populated last is
\* read by everyone
ContextOfShared(i) ==
    IF \E k \in Tasks : k # i /\ tasks[k].ctx # NoContext
    THEN tasks[CHOOSE k \in Tasks : k # i /\ tasks[k].ctx # NoContext].ctx
    ELSE tasks[i].ctx

\* r.Context() of the request task i passed to next
ContextOf(i) == tasks[i].ctx

\* the handler RequireRole and RequireAnyRole hand to RequireAuth: the roles
\* are read from the context and checked
CheckRole(i) ==
    /\ tasks[i].pc = "context-populated"
    /\ tasks[i].guard \in {"RequireRole", "RequireAnyRole"}
    /\ tasks' = [tasks EXCEPT ![i] =
          IF ~ RolesInContext(ContextOf(i))
              THEN Rejected(i, 500, "Unable to verify user roles",
                            "REJECTED-500")
          ELSE IF \/ /\ tasks[i].guard = "RequireRole"
                     /\ ~ HasRole(ContextOf(i).user_roles, tasks[i].need[1])
                  \/ /\ tasks[i].guard = "RequireAnyRole"
                     /\ ~ HasAnyRole(ContextOf(i).user_roles, tasks[i].need)
              THEN Rejected(i, 403, "Insufficient permissions", "REJECTED-403")
          ELSE [@ EXCEPT !.pc = "role-checked",
                         !.trace = Append(@, "role-checked")]]
    /\ UNCHANGED <<now, j, cur, old, issue, last, req, db>>

\* next(w, r): the wrapped handler runs and reads the context of its request
InvokeHandler(i) ==
    /\ \/ tasks[i].pc = "context-populated" /\ tasks[i].guard = "RequireAuth"
       \/ tasks[i].pc = "role-checked"
    /\ tasks' = [tasks EXCEPT ![i] =
          [@ EXCEPT !.pc = "done", !.status = 200, !.body = "handler",
                    !.invoked = TRUE, !.seen = ContextOf(i),
                    !.trace = Append(@, "OPERATION-INVOKED")]]
    /\ UNCHANGED <<now, j, cur, old, issue, last, req, db>>

NextServe ==
    \/ Tick
    \/ \E i \in Tasks : \E g \in ServedGuards : \E rq \in ServedRequests :
           Arrive(i, g, rq)
    \/ \E i \in Tasks : ParseHeader(i)
    \/ \E i \in Tasks : Validate(i)
    \/ \E i \in Tasks : Populate(i)
    \/ \E i \in Tasks : CheckRole(i)
    \/ \E i \in Tasks : InvokeHandler(i)

\* concurrent requests through one Middleware and one JWTService
SpecServe == Init /\ [][NextServe]_vars

-----------------------------------------------------------------------------
(* Register and Login (AuthHandlers), over one users table *)

\* what clients submit to Register and to Login: <<email, password>>
RegisterInputs ==
    { <<DaveEmail, StrongPassword>>, <<DaveEmailMixed, StrongPassword>>,
      <<BobEmailMixed, StrongPassword>>, <<(<<" ">> \o DaveEmail), StrongPassword>>,
      <<DaveEmail, WeakPassword>> }
LoginInputs ==
    { <<AliceEmail, SamplePassword>>, <<AliceEmail, StrongPassword>>,
      <<DaveEmail, StrongPassword>>, <<DaveEmailMixed, StrongPassword>>,
      <<UnknownEmail, SamplePassword>>, <<AliceEmail, << >> >>,
      << << >>, SamplePassword>> }

\* a Register request that a goroutine has decoded; dup records whether a
\* user with the stored form of its email existed when it arrived
Registering(email, password, d) ==
    [op |-> "Register", pc |-> "register", name |-> SampleName, email |-> email,
     password |-> password, dup |-> EmailExists(d, StoredForm(email)),
     hash |-> << >>, status |-> 0, body |-> "", token |-> NoToken, user |-> NoUser]

\* a request is answered
Responded(t, code, msg, tok, user) ==
    [t EXCEPT !.pc = "done", !.status = code, !.body = msg, !.token = tok,
              !.user = user]

\* POST /register arrives and its body is decoded (admin.go lines 307-319)
RegisterArrive(i, email, password) ==
    /\ tasks[i].pc = "idle"
    /\ tasks' = [tasks EXCEPT ![i] = Registering(email, password, db)]
    /\ UNCHANGED <<now, j, cur, old, issue, last, req, db>>

\* Register up to the existence check (admin.go lines 321-348)
RegisterCheck(i) ==
    /\ tasks[i].pc = "register"
    /\ tasks' = [tasks EXCEPT ![i] =
         IF ~ ValidateUserRegistration(@.name, @.email, @.password)
         THEN Responded(@, 400, "Validation failed", NoToken, NoUser)
         ELSE IF EmailExists(db, @.email)
         THEN Responded(@, 409, "Email already registered", NoToken, NoUser)
         ELSE [@ EXCEPT !.pc = "checked"]]
    /\ UNCHANGED <<now, j, cur, old, issue, last, req, db>>

\* another transaction holds an uncommitted users row with this email
HeldByOther(i, email) ==
    \E k \in Tasks \ {i} :
        /\ tasks[k].pc \in {"inserted", "assigned"}
        /\ tasks[k].user.Email = email

\* Register from the hashing of the password to the start of the INSERT
\* into users, which draws the id of the new row
\* (admin.go lines 350-367, user.go lines 156-170)
RegisterInsert(i) ==
    /\ tasks[i].pc = "checked"
    /\ LET t == tasks[i]
           hashed == HashPassword(t.password)
           email == StoredForm(t.email)
       IN  IF ~ hashed.ok
           THEN /\ tasks' = [tasks EXCEPT ![i] =
                      Responded(t, 500, "Internal server error", NoToken, NoUser)]
                /\ db' = db
           ELSE /\ db' = InsertUser(db)
                /\ tasks' = [tasks EXCEPT ![i] =
                      [t EXCEPT !.pc = "inserting", !.hash = hashed.hash,
                                !.user = [ID |-> db.serial, Email |-> email,
                                          Roles |-> << >>]]]
    /\ UNCHANGED <<now, j, cur, old, issue, last, req>>

\* the INSERT into users meets the unique index: it waits for a transaction
\* that holds the email, fails against a committed row (admin.go lines
\* 367-370), and holds the email otherwise (user.go lines 170-174)
RegisterIndex(i) ==
    /\ tasks[i].pc = "inserting"
    /\ ~ HeldByOther(i, tasks[i].user.Email)
    /\ tasks' = [tasks EXCEPT ![i] =
         IF CreateFails(db, @.user.Email)
         THEN Responded(@, 500, "Failed to create user", NoToken, NoUser)
         ELSE [@ EXCEPT !.pc = "inserted"]]
    /\ UNCHANGED <<now, j, cur, old, issue, last, req, db>>

\* Create: the INSERT into user_roles, inside the transaction
\* (user.go lines 176-184)
RegisterAssign(i) ==
    /\ tasks[i].pc = "inserted"
    /\ tasks' = [tasks EXCEPT ![i].pc = "assigned"]
    /\ UNCHANGED <<now, j, cur, old, issue, last, req, db>>

\* Register from the Commit of Create to the response (user.go lines
\* 186-194, admin.go lines 372-388); its token is built at one instant
RegisterCommit(i) ==
    /\ tasks[i].pc = "assigned"
    /\ LET t == tasks[i]
           user == [t.user EXCEPT !.Roles = <<"user">>]
       IN  /\ db' = CommitUser(db, t.user.ID, t.user.Email, t.hash)
           /\ tasks' = [tasks EXCEPT ![i] =
                 Responded(t, 201, "",
                           SignedString("HS256", GenerateClaims(user, now, now, now),
                                        j.secret),
                           user)]
    /\ UNCHANGED <<now, j, cur, old, issue, last, req>>

\* a Login request that a goroutine has decoded; registered records whether a
\* Register request with this email and password had been answered 201 when
\* it arrived
LoggingIn(email, password, ts) ==
    [op |-> "Login", pc |-> "login", email |-> email, password |-> password,
     registered |-> \E k \in Tasks :
                      /\ ts[k].pc = "done" /\ ts[k].op = "Register"
                      /\ ts[k].status = 201
                      /\ ts[k].email = email /\ ts[k].password = password,
     row |-> NoRow, status |-> 0, body |-> "", token |-> NoToken, user |-> NoUser]

\* POST /login arrives and its body is decoded (admin.go lines 236-247)
LoginArrive(i, email, password) ==
    /\ tasks[i].pc = "idle"
    /\ tasks' = [tasks EXCEPT ![i] = LoggingIn(email, password, tasks)]
    /\ UNCHANGED <<now, j, cur, old, issue, last, req, db>>

\* Login up to the row of the user (admin.go lines 249-261, user.go 55-70)
LoginFetch(i) ==
    /\ tasks[i].pc = "login"
    /\ LET t == tasks[i] IN
         tasks' = [tasks EXCEPT ![i] =
           IF t.email = << >> \/ t.password = << >>
           THEN Responded(t, 400, "Email and password are required", NoToken, NoUser)
           ELSE IF GetByEmail(db, t.email) = NoRow
           THEN Responded(t, 401, "Invalid credentials", NoToken, NoUser)
           ELSE [t EXCEPT !.pc = "fetched", !.row = GetByEmail(db, t.email)]]
    /\ UNCHANGED <<now, j, cur, old, issue, last, req, db>>

\* the verification that lets every password pass
LoginVerifySkipsPassword(t, roles) ==
    [t EXCEPT !.pc = "verified",
              !.user = [ID |-> t.row.id, Email |-> t.row.email, Roles |-> roles]]

\* the user of GetByEmail with its roles, and the password check on it
\* (admin.go lines 268-272)
LoginVerify(t, roles) ==
    IF ~ CheckPasswordHash(t.password, t.row.hash)
    THEN Responded(t, 401, "Invalid credentials", NoToken, NoUser)
    ELSE [t EXCEPT !.pc = "verified",
                   !.user = [ID |-> t.row.id, Email |-> t.row.email, Roles |-> roles]]

\* Login from the role query of GetByEmail to the password check
\* (user.go lines 72-80 and 120-143, admin.go lines 268-272)
LoginRoles(i) ==
    /\ tasks[i].pc = "fetched"
    /\ \E roles \in Orderings(UserRoles(db, tasks[i].row.id)) :
           tasks' = [tasks EXCEPT ![i] = LoginVerify(@, roles)]
    /\ UNCHANGED <<now, j, cur, old, issue, last, req, db>>

\* Login from the stamping of last_login to the response
\* (admin.go lines 274-304); its token is built at one instant
LoginStamp(i) ==
    /\ tasks[i].pc = "verified"
    /\ db' = UpdateLastLogin(db, tasks[i].user.ID, now)
    /\ tasks' = [tasks EXCEPT ![i] =
         Responded(@, 200, "",
                   SignedString("HS256", GenerateClaims(@.user, now, now, now), j.secret),
                   @.user)]
    /\ UNCHANGED <<now, j, cur, old, issue, last, req>>

NextAccounts ==
    \/ \E i \in Tasks, in \in RegisterInputs : RegisterArrive(i, in[1], in[2])
    \/ \E i \in Tasks : RegisterCheck(i)
    \/ \E i \in Tasks : RegisterInsert(i)
    \/ \E i \in Tasks : RegisterIndex(i)
    \/ \E i \in Tasks : RegisterAssign(i)
    \/ \E i \in Tasks : RegisterCommit(i)
    \/ \E i \in Tasks, in \in LoginInputs : LoginArrive(i, in[1], in[2])
    \/ \E i \in Tasks : LoginFetch(i)
    \/ \E i \in Tasks : LoginRoles(i)
    \/ \E i \in Tasks : LoginStamp(i)

\* concurrent registrations and logins over one users table
SpecAccounts == Init /\ [][NextAccounts]_vars

-----------------------------------------------------------------------------
(* Properties *)

RolesOf(seq) == { seq[i] : i \in 1 .. Len(seq) }

\* the last call validated the token of the last GenerateToken call
ValidatedIssued == last.op = "Validate" /\ last.in = issue.out

\* tok is an HMAC token whose signature is the MAC of its header and payload
\* under the service's secret
CorrectlySigned(tok) ==
    /\ tok.form = "jwt"
    /\ tok.alg \in HMACMethods
    /\ tok.sig = Sign(tok.alg, j.secret, tok.body)

\* C1: validating the token GenerateToken(P) returned, at the moment it was
\* returned, succeeds and yields P's id, P's email and P's set of roles.
C1_RoundTrip ==
    (ValidatedIssued /\ last.at = issue.ret) =>
        /\ last.ok
        /\ last.claims.UserID = issue.user.ID
        /\ last.claims.Email = issue.user.Email
        /\ RolesOf(last.claims.Roles) = RolesOf(issue.user.Roles)

C1_Witness ==
    /\ ValidatedIssued /\ last.at = issue.ret /\ last.ok
    /\ issue.user.Roles = << >>
    /\ last.claims.UserID = issue.user.ID

\* C2: RefreshToken on a token of GenerateToken succeeds, with an expiry 24
\* hours (at the tokens' one-second precision) after the refresh, whenever the
\* token was issued at most 7 days ago, and fails as too old to refresh when
\* it was issued more than 7 days ago.
C2_RefreshWindow ==
    (last.op = "Refresh" /\ last.in = issue.out) =>
        IF last.at - DecodeClaims(last.in.body).IssuedAt <= RefreshWindow
        THEN /\ last.ok
             /\ NewNumericDate(last.at) + TokenTTL <= ExpiresAt(last.out)
             /\ ExpiresAt(last.out) <= last.ret + TokenTTL
        ELSE ~ last.ok /\ "token too old to refresh" \in last.errs

\* C3: in a chain of refreshes that starts with one GenerateToken at t0, no
\* refresh succeeds later than t0 + 7 days, and no token of the chain
\* validates at or after t0 + 7 days + 24 hours.
C3_BoundedSession ==
    /\ (last.op = "Refresh" /\ last.ok) =>
           last.at <= issue.at + RefreshWindow
    /\ (last.op = "Validate" /\ last.ok) =>
           last.at < issue.at + RefreshWindow + TokenTTL

\* C4 as stated: a token issued at t0 validates exactly at the times before
\* t0 + 24h.
C4_ValidExactly24h ==
    ValidatedIssued => (last.ok <=> last.at < issue.at + TokenTTL)

\* C4: a token issued at t0 validates at every time from its return until its
\* expires_at and at no time from expires_at on; expires_at is t0 truncated
\* to the whole second plus 24 hours; the service's state is never written.
C4_ValidUntilExpiry ==
    /\ j = NewJWTService(ServiceSecret)
    /\ issue.out # NoToken =>
           ExpiresAt(issue.out) = NewNumericDate(issue.at) + TokenTTL
    /\ ValidatedIssued => (last.ok <=> last.at < ExpiresAt(issue.out))

C4_Witness ==
    /\ ValidatedIssued /\ ~ last.ok
    /\ last.at = ExpiresAt(issue.out)
    /\ last.at < issue.at + TokenTTL

\* C5: a correctly signed token whose not_before has been reached validates
\* at every time before its expires_at and fails as expired at every time
\* from expires_at on, that instant included.
C5_ExpiryBoundary ==
    (last.op = "Validate" /\ CorrectlySigned(last.in)
        /\ DecodeClaims(last.in.body).NotBefore <= last.at) =>
        IF last.at < ExpiresAt(last.in)
        THEN last.ok
        ELSE ~ last.ok /\ "token is expired" \in last.errs

C5_Witness ==
    /\ last.op = "Validate" /\ CorrectlySigned(last.in)
    /\ last.at = ExpiresAt(last.in)
    /\ last.errs = {"token is expired"}

\* C6: a correctly signed, unexpired token fails as not yet valid at every
\* time before its not_before and validates from not_before on, that instant
\* included, whatever its issued_at is.
C6_NotBeforeBoundary ==
    (last.op = "Validate" /\ CorrectlySigned(last.in)
        /\ last.at < ExpiresAt(last.in)) =>
        IF last.at < DecodeClaims(last.in.body).NotBefore
        THEN ~ last.ok /\ "token is not valid yet" \in last.errs
        ELSE last.ok

C6_Witness ==
    /\ last.op = "Validate" /\ CorrectlySigned(last.in) /\ last.ok
    /\ last.at = DecodeClaims(last.in.body).NotBefore
    /\ last.at > 0
    /\ last.at < DecodeClaims(last.in.body).IssuedAt

\* the token a header of the form Bearer <token> carries
Carried(h) == TokenString(Split(h)[2])
IsBearer(h) == Len(h) = 3 /\ h[1] = Word("Bearer") /\ h[2] = Space

\* C7: a token whose signature is not the MAC of its header and payload under
\* the service's secret never validates and yields no claims, and a request
\* that carries it is rejected without the wrapped handler being invoked.
C7_TamperRejected ==
    /\ (last.op = "Validate" /\ last.in.form = "jwt"
           /\ last.in.sig # Sign(last.in.alg, j.secret, last.in.body)) =>
           ~ last.ok /\ last.claims = NoClaims
    /\ (req.guard = "RequireAuth" /\ IsBearer(req.header)
           /\ Carried(req.header).form = "jwt"
           /\ Carried(req.header).sig #
                  Sign(Carried(req.header).alg, j.secret, Carried(req.header).body)) =>
           ~ req.invoked /\ req.ctx = NoContext /\ req.status = 401

C7_Witness ==
    /\ req.guard = "RequireAuth" /\ IsBearer(req.header)
    /\ Carried(req.header).form = "jwt"
    /\ Carried(req.header).alg = "HS256"
    /\ Carried(req.header).sig =
           Sign("HS256", j.secret, [Carried(req.header).body EXCEPT !.user_id = 0])
    /\ TimeErrors(DecodeClaims(Carried(req.header).body), req.at) = {}
    /\ ~ req.invoked

\* C8 as stated: the token of a successful refresh carries the identity of
\* its input, issued_at and not_before equal to the refresh time and
\* expires_at equal to the refresh time plus 24 hours.
C8_FreshTimestampsExact ==
    (last.op = "Refresh" /\ last.ok) =>
        /\ DecodeClaims(last.out.body).UserID = DecodeClaims(last.in.body).UserID
        /\ DecodeClaims(last.out.body).Email = DecodeClaims(last.in.body).Email
        /\ DecodeClaims(last.out.body).Roles = DecodeClaims(last.in.body).Roles
        /\ DecodeClaims(last.out.body).Subject = DecodeClaims(last.in.body).Subject
        /\ DecodeClaims(last.out.body).IssuedAt = last.at
        /\ DecodeClaims(last.out.body).NotBefore = last.at
        /\ DecodeClaims(last.out.body).ExpiresAt = last.at + TokenTTL

\* t is a clock reading taken between from and to, truncated to the second
ReadingBetween(t, from, to) ==
    t % Second = 0 /\ NewNumericDate(from) <= t /\ t <= to

\* C8: the token of a successful refresh carries the identity of its input;
\* its issued_at, its not_before and its expires_at less 24 hours are clock
\* readings taken during the refresh, truncated to the whole second.
C8_FreshTimestamps ==
    (last.op = "Refresh" /\ last.ok) =>
        /\ DecodeClaims(last.out.body).UserID = DecodeClaims(last.in.body).UserID
        /\ DecodeClaims(last.out.body).Email = DecodeClaims(last.in.body).Email
        /\ DecodeClaims(last.out.body).Roles = DecodeClaims(last.in.body).Roles
        /\ DecodeClaims(last.out.body).Subject = DecodeClaims(last.in.body).Subject
        /\ ReadingBetween(DecodeClaims(last.out.body).IssuedAt, last.at, last.ret)
        /\ ReadingBetween(DecodeClaims(last.out.body).NotBefore, last.at, last.ret)
        /\ ReadingBetween(DecodeClaims(last.out.body).ExpiresAt - TokenTTL,
                          last.at, last.ret)

C8_Witness ==
    /\ last.op = "Refresh" /\ last.ok
    /\ last.at % Second # 0
    /\ DecodeClaims(last.in.body).IssuedAt + 23 * Hour
           <= DecodeClaims(last.out.body).IssuedAt
    /\ DecodeClaims(last.out.body).Roles # << >>

\* C9: when validation of its input fails at the time of the call,
\* RefreshToken fails with that validation's errors and returns no token.
C9_RefreshValidatesFirst ==
    (last.op = "Refresh" /\ ~ ValidateToken(j, last.in, last.at).ok) =>
        /\ ~ last.ok
        /\ last.out = NoToken
        /\ ValidateToken(j, last.in, last.at).errs \subseteq last.errs

C9_Witness ==
    /\ last.op = "Refresh" /\ CorrectlySigned(last.in)
    /\ ExpiresAt(last.in) <= last.at
    /\ ~ last.ok /\ "token is expired" \in last.errs

\* C10: the token exchanged by a successful refresh validates at every time
\* before its own expires_at, and no step makes a token the client holds
\* invalid before its expires_at.
C10_RefreshDoesNotRevoke ==
    /\ [](((last.op = "Validate" /\ old # NoToken /\ last.in = old
              /\ last.at < ExpiresAt(old)) => last.ok))
    /\ [][\A tok \in Held :
            (ValidateToken(j, tok, now).ok /\ now' < ExpiresAt(tok))
                => ValidateToken(j', tok, now').ok]_vars

C10_Witness ==
    /\ last.op = "Validate" /\ old # NoToken /\ last.in = old /\ last.ok
    /\ cur # old
    /\ ValidateToken(j, cur, now).ok
    /\ now >= DecodeClaims(old.body).IssuedAt + 23 * Hour

\* a guarded request has been served
Guarded == req.guard \in {"RequireAuth", "RequireRole", "RequireAnyRole"}

\* C11: under each of RequireAuth, RequireRole(r) and RequireAnyRole(...), a
\* request without an Authorization header, or with an empty one, is answered
\* 401 and the wrapped handler is not invoked.
C11_MissingHeader ==
    (Guarded /\ req.header = << >>) =>
        /\ req.status = 401
        /\ ~ req.invoked
        /\ req.ctx = NoContext

C11_Witness ==
    /\ req.guard = "RequireRole" /\ ~ req.sent
    /\ req.status = 401 /\ req.body = "Authorization header required"

\* a header value that is not empty and not of the form Bearer <token>
HeaderMalformed(h) ==
    h # << >> /\ (Len(Split(h)) # 2 \/ Split(h)[1] # <<Word("Bearer")>>)

\* the validation, at the time of the request, of the token the request carries
RequestValidation ==
    ValidateToken(j, TokenString(Split(req.header)[2]), req.at)

\* the kinds of failure of a validation
FailureKinds ==
    {"token is malformed", "signing method is unavailable",
     "unexpected signing method", "signature is invalid",
     "token is expired", "token is not valid yet"}

\* the roles of the request's token do not pass the role check of its guard
RoleCheckFails ==
    \/ /\ req.guard = "RequireRole"
       /\ req.need[1] \notin RolesOf(RequestValidation.claims.Roles)
    \/ /\ req.guard = "RequireAnyRole"
       /\ RolesOf(req.need) \cap RolesOf(RequestValidation.claims.Roles) = {}

\* the authentication of the request fails
AuthenticationFails ==
    \/ req.header = << >>
    \/ HeaderMalformed(req.header)
    \/ RequestValidation.errs \cap FailureKinds # {}

\* C12: a guarded request whose header is missing or malformed, or whose
\* token fails validation in any way, is answered 401, never 403 or 500; a
\* 403 is answered only when the token validated and the roles fail the role
\* check.
C12_StatusMapping ==
    Guarded =>
        /\ AuthenticationFails => (req.status = 401 /\ ~ req.invoked)
        /\ req.status = 403 =>
               (~ AuthenticationFails /\ RequestValidation.ok /\ RoleCheckFails)

C12_Witness ==
    /\ req.guard = "RequireRole" /\ req.need = <<"admin">>
    /\ ~ HeaderMalformed(req.header) /\ req.header # << >>
    /\ RequestValidation.errs = {"token is expired"}
    /\ "admin" \in RolesOf(DecodeClaims(TokenString(Split(req.header)[2]).body).Roles)
    /\ req.status = 401

\* the request carries, in a well-formed header, a token that validates
CarriesValidToken ==
    /\ req.header # << >>
    /\ ~ HeaderMalformed(req.header)
    /\ RequestValidation.ok

\* C13: for a request that carries a valid token with roles R, the handler
\* wrapped by RequireRole(r) is invoked exactly when r is in R; when r is not
\* in R the answer is 403; an invoked handler reads from the context the
\* UserID of the token.
C13_RoleGuard ==
    (req.guard = "RequireRole" /\ CarriesValidToken) =>
        /\ req.invoked <=> req.need[1] \in RolesOf(RequestValidation.claims.Roles)
        /\ req.need[1] \notin RolesOf(RequestValidation.claims.Roles) =>
               (req.status = 403 /\ ~ req.invoked)
        /\ req.invoked =>
               GetUserIDFromContext(req.ctx) =
                   [value |-> RequestValidation.claims.UserID, found |-> TRUE]

C13_Witness ==
    /\ req.guard = "RequireRole" /\ CarriesValidToken
    /\ req.need = <<"admin">>
    /\ RequestValidation.claims.Roles = <<"user", "admin">>
    /\ req.invoked
    /\ GetUserIDFromContext(req.ctx).value = 2

\* what the served request answered
Answer ==
    [status |-> req.status, body |-> req.body, invoked |-> req.invoked,
     ctx |-> req.ctx]

\* C14: for a request that carries a valid token with roles R, the handler
\* wrapped by RequireAnyRole(A) is invoked exactly when R and A have a common
\* element; otherwise (A or R empty included) the answer is 403; and on every
\* request RequireAnyRole(r) answers as RequireRole(r) does.
C14_AnyRoleGuard ==
    /\ (req.guard = "RequireAnyRole" /\ CarriesValidToken) =>
           /\ req.invoked <=>
                  RolesOf(req.need) \cap RolesOf(RequestValidation.claims.Roles) # {}
           /\ RolesOf(req.need) \cap RolesOf(RequestValidation.claims.Roles) = {} =>
                  (req.status = 403 /\ ~ req.invoked)
    /\ (req.guard = "RequireAnyRole" /\ Len(req.need) = 1) =>
           Answer = RequireRole(j, req.need[1], req.header, req.at)
    /\ req.guard = "RequireRole" =>
           Answer = RequireAnyRole(j, req.need, req.header, req.at)

C14_Witness ==
    /\ req.guard = "RequireAnyRole" /\ CarriesValidToken
    /\ req.need = <<"guest", "admin">>
    /\ RequestValidation.claims.Roles = <<"user", "admin">>
    /\ req.invoked /\ req.status = 200

\* lists of roles a token may carry
RoleLists == { << >>, <<"user">>, <<"guest">>, <<"user", "admin">> }

\* the token tok with its roles replaced by roles, signed by the service
WithRoles(tok, roles) ==
    SignedString(tok.alg, [DecodeClaims(tok.body) EXCEPT !.Roles = roles],
                 j.secret)

\* C15: for a request with header Bearer <tok> whose token validates with
\* claims c, RequireAuth invokes the wrapped handler with a context whose user
\* id, email and roles are those of c; and it decides alike for tokens that
\* differ only in their roles.
C15_AuthGuardSuccess ==
    /\ (req.guard = "RequireAuth" /\ CarriesValidToken) =>
           /\ req.invoked /\ req.status = 200
           /\ GetUserIDFromContext(req.ctx) =
                  [value |-> RequestValidation.claims.UserID, found |-> TRUE]
           /\ GetUserEmailFromContext(req.ctx) =
                  [value |-> RequestValidation.claims.Email, found |-> TRUE]
           /\ GetUserRolesFromContext(req.ctx) =
                  [value |-> RequestValidation.claims.Roles, found |-> TRUE]
    /\ (req.guard = "RequireAuth" /\ IsBearer(req.header)
           /\ CorrectlySigned(Carried(req.header))) =>
           \A roles \in RoleLists :
               RequireAuth(j, <<Word("Bearer"), Space,
                                WithRoles(Carried(req.header), roles)>>,
                           req.at).invoked = req.invoked

C15_Witness ==
    /\ req.guard = "RequireAuth" /\ CarriesValidToken
    /\ req.invoked
    /\ GetUserRolesFromContext(req.ctx) = [value |-> << >>, found |-> TRUE]
    /\ GetUserEmailFromContext(req.ctx).value = "ann@x.io"

\* the terminal states of a request
Terminals ==
    {"REJECTED-401", "REJECTED-403", "REJECTED-500", "OPERATION-INVOKED"}

\* how often mark occurs in the trace of a request
Count(trace, mark) ==
    Cardinality({ k \in 1 .. Len(trace) : trace[k] = mark })

\* the steps of a request that reached the wrapped handler
PathToHandler(guard) ==
    IF guard = "RequireAuth"
    THEN <<"header-parsed", "token-validated", "context-populated",
           "OPERATION-INVOKED">>
    ELSE <<"header-parsed", "token-validated", "context-populated",
           "role-checked", "OPERATION-INVOKED">>

\* the status a terminal state answers with
StatusOf(mark) ==
    CASE mark = "REJECTED-401" -> 401
      [] mark = "REJECTED-403" -> 403
      [] mark = "REJECTED-500" -> 500
      [] OTHER -> 200

\* C16: a finished request is in exactly one terminal state, its last step,
\* and answered with the status of that state; an unfinished request is in
\* none and has a next step; the wrapped handler is reached only through
\* header-parsed, token-validated, context-populated (and role-checked under
\* a role guard) in that order; the handler is invoked and the context is
\* populated at most once per request.
C16_RequestStateMachine ==
    \A i \in Tasks :
        /\ Cardinality({ k \in 1 .. Len(tasks[i].trace) :
                             tasks[i].trace[k] \in Terminals })
               = (IF tasks[i].pc = "done" THEN 1 ELSE 0)
        /\ tasks[i].pc = "done" =>
               /\ tasks[i].trace[Len(tasks[i].trace)] \in Terminals
               /\ tasks[i].status = StatusOf(tasks[i].trace[Len(tasks[i].trace)])
               /\ tasks[i].invoked <=>
                      tasks[i].trace[Len(tasks[i].trace)] = "OPERATION-INVOKED"
        /\ tasks[i].pc \notin {"idle", "done"} =>
               ENABLED (ParseHeader(i) \/ Validate(i) \/ Populate(i)
                           \/ CheckRole(i) \/ InvokeHandler(i))
        /\ Count(tasks[i].trace, "OPERATION-INVOKED") > 0 =>
               tasks[i].trace = PathToHandler(tasks[i].guard)
        /\ Count(tasks[i].trace, "OPERATION-INVOKED") <= 1
        /\ Count(tasks[i].trace, "context-populated") <= 1

C16_Witness ==
    \E i \in Tasks :
        /\ tasks[i].pc = "done" /\ tasks[i].guard = "RequireRole"
        /\ tasks[i].trace = PathToHandler("RequireRole")
        /\ tasks[i].status = 200

\* the answer task i's request gets when it is served alone, with the
\* validation at the time task i validated
Alone(i) ==
    CASE tasks[i].guard = "RequireAuth" ->
             RequireAuth(j, HeaderGet(tasks[i].rq), tasks[i].at)
      [] tasks[i].guard = "RequireRole" ->
             RequireRole(j, tasks[i].need[1], HeaderGet(tasks[i].rq), tasks[i].at)
      [] OTHER ->
             RequireAnyRole(j, tasks[i].need, HeaderGet(tasks[i].rq), tasks[i].at)

\* C17: under every interleaving of the requests served concurrently, a
\* request is answered as it is when served alone, and an invoked handler
\* reads the user id, the email and the roles of the token of its own request.
C17_RequestIsolation ==
    \A i \in Tasks : tasks[i].pc = "done" =>
        /\ tasks[i].status = Alone(i).status
        /\ tasks[i].body = Alone(i).body
        /\ tasks[i].invoked = Alone(i).invoked
        /\ tasks[i].invoked =>
               /\ tasks[i].seen = Alone(i).ctx
               /\ GetUserIDFromContext(tasks[i].seen).value =
                      DecodeClaims(tasks[i].tokenString.body).UserID
               /\ GetUserEmailFromContext(tasks[i].seen).value =
                      DecodeClaims(tasks[i].tokenString.body).Email
               /\ GetUserRolesFromContext(tasks[i].seen).value =
                      DecodeClaims(tasks[i].tokenString.body).Roles

\* a request validated later than another one finishes first, each with the
\* identity of its own token
C17_Witness ==
    \E i, k \in Tasks :
        /\ tasks[i].pc = "done" /\ tasks[i].invoked
        /\ tasks[k].pc = "context-populated"
        /\ tasks[k].at < tasks[i].at
        /\ GetUserIDFromContext(tasks[i].seen).value = 1
        /\ GetUserIDFromContext(tasks[k].ctx).value = 2

\* the errors that reject a token for the algorithm its header names: that of
\* the key function and that of the parser for a method it does not know
AlgorithmErrors == {"unexpected signing method", "signing method is unavailable"}

\* C19: ValidateToken fails, for the algorithm, on every token whose header
\* names another algorithm than HS256, the one GenerateToken signs with, even
\* when the signature verifies under the named algorithm with the secret.
C19_AlgorithmPinning ==
    (last.op = "Validate" /\ last.in.form = "jwt" /\ last.in.alg # "HS256") =>
        /\ ~ last.ok
        /\ last.errs \cap AlgorithmErrors # {}

\* the guard called ValidateToken for the request: the handler or the role
\* check ran, or the request was answered with the message of a failed
\* validation
ReachedValidation ==
    \/ req.invoked
    \/ req.body \in {"Insufficient permissions", "Unable to verify user roles"}
    \/ req.body = "Invalid or expired token"

\* the header value is two white-space separated tokens, the first one Bearer
TwoFieldsBearer(h) == Len(Fields(h)) = 2 /\ Fields(h)[1] = <<Word("Bearer")>>

\* the header value is Bearer, one space, and a rest without a space
BearerSpaceRest(h) ==
    /\ Len(h) >= 2
    /\ h[1] = Word("Bearer")
    /\ h[2] = Space
    /\ \A k \in 3 .. Len(h) : h[k] # Space

\* C20 as stated: the guard goes on to validate the token exactly when the
\* header value is two white-space separated tokens whose first is Bearer;
\* every other non-empty value is answered 401 without a validation.
C20_HeaderScheme ==
    (Guarded /\ req.header # << >>) =>
        /\ ReachedValidation <=> TwoFieldsBearer(req.header)
        /\ ~ TwoFieldsBearer(req.header) => (req.status = 401 /\ ~ req.invoked)

\* C20: the guard goes on to validate the token exactly when the header
\* value is Bearer (case-sensitive), one space and a rest, possibly empty,
\* without a space; every other non-empty value is answered 401 as a header
\* of invalid format, without a validation and without the handler.
C20_HeaderSplit ==
    (Guarded /\ req.header # << >>) =>
        /\ ReachedValidation <=> BearerSpaceRest(req.header)
        /\ ~ BearerSpaceRest(req.header) =>
               /\ req.status = 401 /\ ~ req.invoked
               /\ req.body = "Invalid authorization header format"

C20_Witness ==
    /\ req.guard = "RequireAuth"
    /\ Len(req.header) = 4 /\ req.header[3] = Space
    /\ TwoFieldsBearer(req.header)
    /\ ValidateToken(j, req.header[4], req.at).ok
    /\ req.status = 401 /\ req.body = "Invalid authorization header format"

\* C21: the claims GenerateToken and RefreshToken build satisfy
\* not_before <= issued_at < expires_at and expires_at = issued_at + 24h,
\* also when the clock moves between the three clock reads of the call.
C21_TimestampInvariant ==
    (last.op \in {"Generate", "Refresh"} /\ last.ok) =>
        /\ DecodeClaims(last.out.body).NotBefore <= DecodeClaims(last.out.body).IssuedAt
        /\ DecodeClaims(last.out.body).IssuedAt < DecodeClaims(last.out.body).ExpiresAt
        /\ DecodeClaims(last.out.body).ExpiresAt =
               DecodeClaims(last.out.body).IssuedAt + TokenTTL

\* C22: every token of the service carries the same issuer: the token of a
\* refresh has the issuer of the token it was made from, and the tokens of a
\* session have the issuer of the token the session started with.
C22_FixedIssuer ==
    /\ (last.op = "Refresh" /\ last.ok) =>
           DecodeClaims(last.out.body).Issuer = DecodeClaims(last.in.body).Issuer
    /\ \A tok \in Held :
           DecodeClaims(tok.body).Issuer = DecodeClaims(issue.out.body).Issuer

\* the errors of the time window
WindowErrors == {"token is expired", "token is not valid yet"}

\* C23: ValidateToken checks structure, algorithm, signature and time window
\* in this order and reports the first check that fails: a token that does
\* not parse fails as malformed; a token with an algorithm that is no MAC
\* fails for its algorithm whatever its signature and timestamps; a MAC token
\* with a wrong signature fails as signature-invalid, also when it has
\* expired; the time window is reported only for tokens whose signature
\* verified.
C23_ValidationOrder ==
    last.op = "Validate" =>
        /\ last.in.form # "jwt" => last.errs = {"token is malformed"}
        /\ (last.in.form = "jwt" /\ last.in.alg \notin HMACMethods) =>
               (last.errs # {} /\ last.errs \subseteq AlgorithmErrors)
        /\ (last.in.form = "jwt" /\ last.in.alg \in HMACMethods
               /\ last.in.sig # Sign(last.in.alg, j.secret, last.in.body)) =>
               last.errs = {"signature is invalid"}
        /\ last.errs \cap WindowErrors # {} => CorrectlySigned(last.in)

C23_Witness ==
    /\ last.op = "Validate" /\ last.in.form = "jwt" /\ last.in.alg = "HS256"
    /\ last.in.sig = Sign("HS256", "0ther", last.in.body)
    /\ ExpiresAt(last.in) < last.at
    /\ last.errs = {"signature is invalid"}

\* C24 as stated: every request that fails authentication gets the same
\* status and the same body, those of a request without a header.
C24_NoDetailLeak ==
    (Guarded /\ AuthenticationFails) =>
        /\ req.status = RequireAuth(j, << >>, req.at).status
        /\ req.body = RequireAuth(j, << >>, req.at).body

\* C24: every request that fails authentication gets status 401, and its
\* body tells no more than the stage that failed: header missing, header of
\* invalid format, or token invalid; all the ways a token fails validation
\* get the same body.
C24_NoTokenDetailLeak ==
    (Guarded /\ AuthenticationFails) =>
        /\ req.status = 401
        /\ req.body =
               (IF req.header = << >> THEN "Authorization header required"
                ELSE IF HeaderMalformed(req.header)
                    THEN "Invalid authorization header format"
                ELSE "Invalid or expired token")

C24_Witness ==
    /\ req.guard = "RequireAuth"
    /\ req.header # << >> /\ ~ HeaderMalformed(req.header)
    /\ RequestValidation.errs = {"token is not valid yet"}
    /\ req.status = 401 /\ req.body = "Invalid or expired token"

\* C25: on a context the authentication guard never populated the three
\* accessors return found = false; on the context of a request whose valid
\* token has empty or absent roles GetUserRolesFromContext returns found =
\* true with no roles, and the other two accessors find their values.
C25_ContextAccessors ==
    Guarded =>
        /\ ~ CarriesValidToken =>
               /\ req.ctx = NoContext
               /\ ~ GetUserIDFromContext(req.ctx).found
               /\ ~ GetUserEmailFromContext(req.ctx).found
               /\ ~ GetUserRolesFromContext(req.ctx).found
        /\ (req.invoked /\ RequestValidation.claims.Roles = << >>) =>
               GetUserRolesFromContext(req.ctx) = [value |-> << >>, found |-> TRUE]
        /\ req.invoked =>
               /\ GetUserIDFromContext(req.ctx).found
               /\ GetUserEmailFromContext(req.ctx).found
               /\ GetUserRolesFromContext(req.ctx).found

C25_Witness ==
    /\ req.guard = "RequireAuth" /\ CarriesValidToken /\ req.invoked
    /\ "roles" \notin DOMAIN TokenString(Split(req.header)[2]).body
    /\ GetUserRolesFromContext(req.ctx) = [value |-> << >>, found |-> TRUE]
    /\ GetUserIDFromContext(req.ctx) = [value |-> 2, found |-> TRUE]

\* C26: no request to a guarded route is answered 500 'Unable to verify user
\* roles', whatever its header, token and roles; a request with a valid token
\* whose roles are empty or absent is answered 403 by the role guards.
C26_No500 ==
    Guarded =>
        /\ req.status # 500
        /\ req.body # "Unable to verify user roles"
        /\ (req.guard \in {"RequireRole", "RequireAnyRole"} /\ CarriesValidToken
               /\ RequestValidation.claims.Roles = << >>) =>
               (req.status = 403 /\ ~ req.invoked)

C26_Witness ==
    /\ req.guard = "RequireAnyRole" /\ CarriesValidToken
    /\ req.need = <<"guest", "admin">>
    /\ "roles" \notin DOMAIN TokenString(Split(req.header)[2]).body
    /\ req.status = 403 /\ req.body = "Insufficient permissions"

\* C27: RequireAuthLegacy invokes its handler for exactly the requests
\* RequireAuth invokes its handler for and answers the others 401; the
\* X-User-ID, X-User-Email and X-User-Roles headers the handler sees hold the
\* values of the validated claims only, whatever the client supplied.
C27_LegacyGuard ==
    req.guard = "RequireAuthLegacy" =>
        /\ req.invoked = RequireAuth(j, req.header, req.at).invoked
        /\ ~ req.invoked => req.status = 401
        /\ req.invoked =>
               /\ req.headers["X-User-ID"] =
                      <<Itoa(RequestValidation.claims.UserID)>>
               /\ req.headers["X-User-Email"] = <<RequestValidation.claims.Email>>
               /\ req.headers["X-User-Roles"] =
                      <<Join(RequestValidation.claims.Roles)>>
               /\ HeaderFirst(req.headers, "X-User-ID") =
                      Itoa(RequestValidation.claims.UserID)

C27_Witness ==
    /\ req.guard = "RequireAuthLegacy" /\ req.invoked
    /\ HeaderFirst(req.supplied, "X-User-ID") = "1"
    /\ req.headers["X-User-ID"] = <<"2">>
    /\ req.headers["X-User-Roles"] = <<"user,admin">>

\* a Register request that has been answered
Answered(i) == tasks[i].pc = "done" /\ tasks[i].op = "Register"

\* the Register request of goroutine i passed ValidateUserRegistration
WellFormed(i) ==
    /\ tasks[i].pc # "idle" /\ tasks[i].op = "Register"
    /\ ValidateUserRegistration(tasks[i].name, tasks[i].email, tasks[i].password)

\* C28: under every interleaving of concurrent Register requests for the same
\* email address, which no user held when they arrived, at most one user
\* record with that email exists, at most one of the requests is answered 201
\* with a token, and every other one is answered 409 "Email already
\* registered".
C28_ConcurrentRegistration ==
    /\ \A r1 \in db.users, r2 \in db.users : r1.email = r2.email => r1 = r2
    /\ \A i \in Tasks, k \in Tasks :
        (/\ i # k
         /\ Answered(i) /\ WellFormed(i) /\ ~ tasks[i].dup
         /\ WellFormed(k) /\ tasks[k].email = tasks[i].email)
        => /\ tasks[i].status \in {201, 409}
           /\ tasks[i].status = 201 => tasks[i].token # NoToken
           /\ tasks[i].status = 409 =>
                  tasks[i].body = "Email already registered"
           /\ ~ (tasks[i].status = 201 /\ tasks[k].status = 201)

\* a Login request that has been answered
LoginAnswered(i) == tasks[i].pc = "done" /\ tasks[i].op = "Login"

\* C29: a well-formed Register request is answered 409 whenever a user existed
\* on its arrival whose stored email equals the trimmed and lower-cased form
\* of the submitted email, and no second user with that email is created; a
\* login with the email and password of a registration that was answered 201
\* before it succeeds.
C29_StoredFormDuplicate ==
    /\ \A i \in Tasks :
        (Answered(i) /\ WellFormed(i) /\ tasks[i].dup) => tasks[i].status = 409
    /\ \A r1 \in db.users, r2 \in db.users :
        StoredForm(r1.email) = StoredForm(r2.email) => r1 = r2
    /\ \A i \in Tasks :
        (LoginAnswered(i) /\ tasks[i].registered) => tasks[i].status = 200

\* the hashes CheckPasswordHash is given
KnownHashes == { row.hash : row \in db.users } \cup {<< >>}

\* the passwords CheckPasswordHash is given
KnownPasswords == { in[2] : in \in LoginInputs }

\* an active user has the email and the password of the Login request of
\* goroutine i
Credentials(i) ==
    \E row \in db.users :
        /\ row.active /\ row.email = tasks[i].email
        /\ CheckPasswordHash(tasks[i].password, row.hash)
        /\ tasks[i].status = 200 =>
            /\ DecodeClaims(tasks[i].token.body).UserID = row.id
            /\ DecodeClaims(tasks[i].token.body).Email = row.email
            /\ RolesOf(DecodeClaims(tasks[i].token.body).Roles) = row.roles
            /\ Len(DecodeClaims(tasks[i].token.body).Roles) = Cardinality(row.roles)

\* C30: Login answers 200 with a token only when an active user with the
\* submitted email exists and CheckPasswordHash(password, stored hash) holds,
\* and then the claims of the token carry that user's id, email and roles; an
\* unknown email and a wrong password are both answered 401 "Invalid
\* credentials" without a token; CheckPasswordHash is false for an empty
\* password and for an empty hash.
C30_LoginVerifiesCredentials ==
    /\ \A i \in Tasks : LoginAnswered(i) =>
        /\ (tasks[i].status = 200) = (tasks[i].token # NoToken)
        /\ tasks[i].status = 200 => Credentials(i)
        /\ (/\ tasks[i].email # << >> /\ tasks[i].password # << >>
            /\ ~ Credentials(i))
           => /\ tasks[i].status = 401
              /\ tasks[i].body = "Invalid credentials"
              /\ tasks[i].token = NoToken
    /\ \A password \in KnownPasswords, hash \in KnownHashes :
        (password = << >> \/ hash = << >>) => ~ CheckPasswordHash(password, hash)

\* an administrator has logged in, and a login with a wrong password for the
\* same account was answered 401
C30_Witness ==
    \E i \in Tasks, k \in Tasks :
        /\ LoginAnswered(i) /\ tasks[i].status = 200
        /\ tasks[i].email = AliceEmail /\ tasks[i].password = SamplePassword
        /\ DecodeClaims(tasks[i].token.body).Roles = <<"user", "admin">>
        /\ \E row \in db.users : row.id = 1 /\ row.last_login = now
        /\ LoginAnswered(k) /\ tasks[k].status = 401
        /\ tasks[k].email = AliceEmail /\ tasks[k].password = StrongPassword

=============================================================================
